---- MODULE Spec2Model ----
(***************************************************************************)
(* A model of the BVH reader and writer of src/src/lib.rs.                 *)
(*                                                                         *)
(* Text is a sequence of atoms.  An atom is a word (a keyword, a channel   *)
(* literal, a joint name) or a single character: a digit, ".", "-", "{",   *)
(* "}", a space or a newline.  Numbers are therefore written and read      *)
(* digit by digit.  An f64 is modelled as a fixed-point number: an integer *)
(* count of units of 10^-FracDigits; a u32 keeps its 32-bit range.         *)
(***************************************************************************)
EXTENDS Integers, Sequences, FiniteSets, TLC

\* ------------------------------------------------------------------ bounds
\* Decimal places an f64 of the model carries.
FracDigits == 2
\* Most joints in a Bvh value handed to serialize.
MaxJoints == 3
\* Most values in frame_data of a Bvh value handed to serialize.
MaxData == 4
\* Most joints in the hierarchy of an input document handed to parse.
MaxDocJoints == 4
\* Most values after Frame Time: in an input document handed to parse.
MaxDocData == 4

\* ------------------------------------------------------------- numbers
\* A u32 is kept as two 16-bit halves, [hi, lo], of value hi * Half + lo, so
\* that its full 32-bit range and its overflow are those of the program.
Half == 65536

U32(n) == [hi |-> n \div Half, lo |-> n % Half]

Digits == <<"0", "1", "2", "3", "4", "5", "6", "7", "8", "9">>

IsDigit(a) == \E i \in 1..10 : Digits[i] = a

DigitVal(a) == (CHOOSE i \in 1..10 : Digits[i] = a) - 1

RECURSIVE Pow10(_)
Pow10(n) == IF n = 0 THEN 1 ELSE 10 * Pow10(n - 1)

Scale == Pow10(FracDigits)

Abs(v) == IF v < 0 THEN 0 - v ELSE v

\* The decimal digits of a natural number, most significant first.
RECURSIVE fmt_nat(_)
fmt_nat(n) == IF n < 10 THEN <<Digits[n + 1]>>
              ELSE fmt_nat(n \div 10) \o <<Digits[(n % 10) + 1]>>

\* Display of a u32: its decimal digits, by long division by ten.
RECURSIVE fmt_u32(_)
fmt_u32(n) ==
    LET t == (n.hi % 10) * Half + n.lo
        q == [hi |-> n.hi \div 10, lo |-> t \div 10]
    IN  IF q.hi = 0 /\ q.lo = 0 THEN <<Digits[(t % 10) + 1]>>
        ELSE fmt_u32(q) \o <<Digits[(t % 10) + 1]>>

\* The digits of the fraction f (0 < f < 10^width), zero-padded on the left to
\* `width` places, its trailing zeros dropped.
RECURSIVE fmt_frac(_, _)
fmt_frac(f, width) ==
    IF f = 0 \/ width = 0 THEN <<>>
    ELSE <<Digits[(f \div Pow10(width - 1)) + 1]>>
         \o fmt_frac(f % Pow10(width - 1), width - 1)

\* Display of an f64: sign, integer part, and the fraction when there is one
\* (1.0 prints as "1", -1.5 as "-1.5", 0.05 as "0.05").
fmt_f64(v) ==
    (IF v < 0 THEN <<"-">> ELSE <<>>)
    \o fmt_nat(Abs(v) \div Scale)
    \o (IF Abs(v) % Scale = 0 THEN <<>>
        ELSE <<".">> \o fmt_frac(Abs(v) % Scale, FracDigits))

\* The value of a digit string.
RECURSIVE nat_of(_)
nat_of(ds) == IF ds = <<>> THEN 0
              ELSE 10 * nat_of(SubSeq(ds, 1, Len(ds) - 1)) + DigitVal(ds[Len(ds)])

IsDigits(ds) == Len(ds) > 0 /\ \A i \in 1..Len(ds) : IsDigit(ds[i])

\* The digits of s accumulated into a u32 from the left, as
\* acc.checked_mul(10)?.checked_add(digit)?: "Err" once the value passes u32::MAX.
RECURSIVE u32_of(_)
u32_of(ds) ==
    IF ds = <<>> THEN [tag |-> "Ok", val |-> U32(0)]
    ELSE LET acc == u32_of(SubSeq(ds, 1, Len(ds) - 1))
             lo  == acc.val.lo * 10 + DigitVal(ds[Len(ds)])
             hi  == acc.val.hi * 10 + (lo \div Half)
         IN  IF acc.tag = "Err" \/ hi >= Half
             THEN [tag |-> "Err", val |-> U32(0)]
             ELSE [tag |-> "Ok", val |-> [hi |-> hi, lo |-> lo % Half]]

\* str::parse::<u32>: Err on anything but a digit string of value <= u32::MAX.
parse_u32(s) ==
    IF IsDigits(s) THEN u32_of(s) ELSE [tag |-> "Err", val |-> U32(0)]

\* Position of "." in s, or 0.
DotAt(s) == IF \E i \in 1..Len(s) : s[i] = "."
            THEN CHOOSE i \in 1..Len(s) : s[i] = "." ELSE 0

\* str::parse::<f64> on an optional sign, digits, and an optional "." with up to
\* FracDigits digits after it.
parse_f64_str(s) ==
    LET neg  == Len(s) > 0 /\ s[1] = "-"
        body == IF neg THEN SubSeq(s, 2, Len(s)) ELSE s
        dot  == DotAt(body)
        ip   == IF dot = 0 THEN body ELSE SubSeq(body, 1, dot - 1)
        fp   == IF dot = 0 THEN <<>> ELSE SubSeq(body, dot + 1, Len(body))
        okay == /\ IsDigits(ip)
                /\ \A i \in 1..Len(fp) : IsDigit(fp[i])
                /\ Len(fp) <= FracDigits
        mag  == nat_of(ip) * Scale + nat_of(fp) * Pow10(FracDigits - Len(fp))
    IN  IF okay THEN [tag |-> "Ok", val |-> IF neg THEN 0 - mag ELSE mag]
        ELSE [tag |-> "Err", val |-> 0]

\* ---------------------------------------------------------- data model
\* Channel: the six enum values.
Channel == {"XPosition", "YPosition", "ZPosition",
            "XRotation", "YRotation", "ZRotation"}

Offset(x, y, z) == [x |-> x, y |-> y, z |-> z]

\* JointChildren::Joints(joints) and JointChildren::EndSite(EndSite {offset}).
Joints(joints) == [tag |-> "Joints", joints |-> joints, offset |-> Offset(0, 0, 0)]

EndSite(offset) == [tag |-> "EndSite", joints |-> <<>>, offset |-> offset]

Joint(name, offset, channels, children) ==
    [name |-> name, offset |-> offset, channels |-> channels, children |-> children]

Motion(num_frames, frame_time, frame_data) ==
    [num_frames |-> num_frames, frame_time |-> frame_time, frame_data |-> frame_data]

Bvh(root, motion) == [hierarchy |-> [root |-> root], motion |-> motion]

RECURSIVE SumSeq(_)
SumSeq(s) == IF s = <<>> THEN 0 ELSE s[1] + SumSeq(Tail(s))

\* A total_channels that adds the channels of the children only, not of their
\* own children.
total_channels_shallow(joint) ==
    Len(joint.channels)
    + (IF joint.children.tag = "Joints"
       THEN SumSeq([i \in 1..Len(joint.children.joints) |->
                        Len(joint.children.joints[i].channels)])
       ELSE 0)

\* Joint::total_channels.
RECURSIVE total_channels(_)
total_channels(joint) ==
    Len(joint.channels)
    + (IF joint.children.tag = "Joints"
       THEN SumSeq([i \in 1..Len(joint.children.joints) |->
                        total_channels(joint.children.joints[i])])
       ELSE 0)

\* ------------------------------------------------------------ serializer
\* What serialize does, in order: a write to the sink (one write! or writeln!,
\* with the text it formats), or a panic.
Write(text) == [op |-> "write", text |-> text]

Panic == [op |-> "panic", text |-> <<>>]

\* A String written with {}: one word, nothing when it is empty.
fmt_str(s) == IF s = "" THEN <<>> ELSE <<s>>

RECURSIVE Concat(_)
Concat(ss) == IF ss = <<>> THEN <<>> ELSE ss[1] \o Concat(Tail(ss))

serialize_offset(offset) ==
    <<Write(<<"OFFSET", " ">> \o fmt_f64(offset.x) \o <<" ">> \o fmt_f64(offset.y)
            \o <<" ">> \o fmt_f64(offset.z) \o <<"\n">>)>>

\* The match of serialize_joint's channel loop.
channel_literal(channel) ==
    CASE channel = "XPosition" -> "Xposition"
      [] channel = "YPosition" -> "Yposition"
      [] channel = "ZPosition" -> "Zposition"
      [] channel = "XRotation" -> "Xrotation"
      [] channel = "YRotation" -> "Yrotation"
      [] channel = "ZRotation" -> "Zrotation"

RECURSIVE serialize_joint(_)
serialize_joint(joint) ==
    <<Write(fmt_str(joint.name) \o <<"\n">>), Write(<<"{", "\n">>)>>
    \o serialize_offset(joint.offset)
    \o <<Write(<<"CHANNELS", " ">> \o fmt_nat(Len(joint.channels)))>>
    \o [i \in 1..Len(joint.channels) |->
            Write(<<" ", channel_literal(joint.channels[i])>>)]
    \o <<Write(<<"\n">>)>>
    \o (IF joint.children.tag = "Joints"
        THEN Concat([i \in 1..Len(joint.children.joints) |->
                        <<Write(<<"JOINT", " ">>)>>
                        \o serialize_joint(joint.children.joints[i])])
        ELSE <<Write(<<"End", " ", "Site", "\n">>), Write(<<"{", "\n">>)>>
             \o serialize_offset(joint.children.offset)
             \o <<Write(<<"}", "\n">>)>>)
    \o <<Write(<<"}", "\n">>)>>

serialize_hierarchy(hierarchy) ==
    <<Write(<<"HIERARCHY", "\n">>), Write(<<"ROOT", " ">>)>>
    \o serialize_joint(hierarchy.root)

\* A loop that writes no space between the values of a row.
RECURSIVE motion_rows_unseparated(_, _, _)
motion_rows_unseparated(frame_data, index, total) ==
    IF index >= Len(frame_data) THEN <<>>
    ELSE <<Write(fmt_f64(frame_data[index + 1]))>>
         \o (IF total = 0 THEN <<Panic>>
             ELSE <<Write(IF index % total # total - 1 THEN <<>> ELSE <<"\n">>)>>
                  \o motion_rows_unseparated(frame_data, index + 1, total))

\* The loop of serialize_motion from `index` on: the value, then a space or a
\* newline; index % total_channels panics when total_channels is 0.
RECURSIVE motion_rows(_, _, _)
motion_rows(frame_data, index, total) ==
    IF index >= Len(frame_data) THEN <<>>
    ELSE <<Write(fmt_f64(frame_data[index + 1]))>>
         \o (IF total = 0 THEN <<Panic>>
             ELSE <<Write(IF index % total # total - 1 THEN <<" ">> ELSE <<"\n">>)>>
                  \o motion_rows(frame_data, index + 1, total))

serialize_motion(motion, total) ==
    <<Write(<<"MOTION", "\n">>),
      Write(<<"Frames:", " ">> \o fmt_u32(motion.num_frames) \o <<"\n">>),
      Write(<<"Frame", " ", "Time:", " ">> \o fmt_f64(motion.frame_time) \o <<"\n">>)>>
    \o motion_rows(motion.frame_data, 0, total)

serialize(bvh) ==
    serialize_hierarchy(bvh.hierarchy)
    \o serialize_motion(bvh.motion, total_channels(bvh.hierarchy.root))

\* ------------------------------------------------- grammar (bvh.pest)
\* The grammar file is not part of the sources at hand; the rules below follow
\* the rule vocabulary, the wire format and the rejection rules of the
\* specification.  A pair is a matched rule: its rule, its text (kept for the
\* leaf rules, whose text the builder reads) and its inner pairs, in document
\* order.  Keywords and braces produce no pair.
Pair(rule, str, inner) == [rule |-> rule, str |-> str, inner |-> inner]

Matched(pairs, pos) == [ok |-> TRUE, pairs |-> pairs, pos |-> pos]

NoMatch == [ok |-> FALSE, pairs |-> <<>>, pos |-> 0]

\* a ~ b: what follows a match.
Then(m, F(_)) == IF m.ok THEN F(m) ELSE NoMatch

\* a | b: the second where the first does not match.
OrElse(m, other) == IF m.ok THEN m ELSE other

IsWs(a) == a \in {" ", "\n"}

Keywords == {"HIERARCHY", "ROOT", "JOINT", "OFFSET", "CHANNELS", "End", "Site",
             "MOTION", "Frames:", "Frame", "Time:", "{", "}", ".", "-"}

ChannelLiterals == {"Xposition", "Yposition", "Zposition",
                    "Xrotation", "Yrotation", "Zrotation"}

\* The first position from p on that holds no whitespace.
RECURSIVE SkipWs(_, _)
SkipWs(t, p) == IF p <= Len(t) /\ IsWs(t[p]) THEN SkipWs(t, p + 1) ELSE p

\* The first position from p on that holds no digit.
RECURSIVE SkipDigits(_, _)
SkipDigits(t, p) == IF p <= Len(t) /\ IsDigit(t[p]) THEN SkipDigits(t, p + 1) ELSE p

\* The atom at p is `word`.
At(t, p, word) == IF p <= Len(t) /\ t[p] = word THEN Matched(<<>>, p + 1) ELSE NoMatch

\* One or more digits at p.
DigitsAt(t, p) == IF SkipDigits(t, p) > p THEN Matched(<<>>, SkipDigits(t, p)) ELSE NoMatch

\* The text from p to the end of match m, as a pair of the rule.
Leaf(rule, t, p, m) == Matched(<<Pair(rule, SubSeq(t, p, m.pos - 1), <<>>)>>, m.pos)

\* A keyword or a brace, after whitespace.
Lit(t, p, word) == At(t, SkipWs(t, p), word)

\* integer: one or more digits.
integer_at(t, p) == Then(DigitsAt(t, p), LAMBDA d : Leaf("integer", t, p, d))

rule_integer(t, p) == integer_at(t, SkipWs(t, p))

\* float: an optional "-", digits, and optionally "." and digits.
float_at(t, p) ==
    Then(OrElse(At(t, p, "-"), Matched(<<>>, p)), LAMBDA sign :
    Then(DigitsAt(t, sign.pos), LAMBDA int :
    Leaf("float", t, p,
         OrElse(Then(At(t, int.pos, "."), LAMBDA dot : DigitsAt(t, dot.pos)), int))))

rule_float(t, p) == float_at(t, SkipWs(t, p))

\* identifier: a word that is no keyword, channel literal, digit or whitespace.
identifier_at(t, p) ==
    IF p <= Len(t) /\ t[p] \notin Keywords \cup ChannelLiterals /\ ~IsDigit(t[p])
    THEN Matched(<<Pair("identifier", <<t[p]>>, <<>>)>>, p + 1)
    ELSE NoMatch

rule_identifier(t, p) == identifier_at(t, SkipWs(t, p))

\* offset: OFFSET float float float.
rule_offset(t, p) ==
    Then(Lit(t, p, "OFFSET"), LAMBDA k :
    Then(rule_float(t, k.pos), LAMBDA x :
    Then(rule_float(t, x.pos), LAMBDA y :
    Then(rule_float(t, y.pos), LAMBDA z :
    Matched(<<Pair("offset", <<>>, x.pairs \o y.pairs \o z.pairs)>>, z.pos)))))

\* channel: one of the six channel literals.
channel_at(t, p) ==
    IF p <= Len(t) /\ t[p] \in ChannelLiterals
    THEN Matched(<<Pair("channel", <<t[p]>>, <<>>)>>, p + 1)
    ELSE NoMatch

\* channel*.
RECURSIVE rule_channel_star(_, _)
rule_channel_star(t, p) ==
    OrElse(Then(channel_at(t, SkipWs(t, p)), LAMBDA c :
           Then(rule_channel_star(t, c.pos), LAMBDA more :
           Matched(c.pairs \o more.pairs, more.pos))),
           Matched(<<>>, p))

\* Whether the integer pair counts the channel pairs that follow it.
counts(integer, channels) ==
    parse_u32(integer[1].str) = [tag |-> "Ok", val |-> U32(Len(channels))]

\* channels: CHANNELS integer channel*, the integer being the number of channel
\* literals that follow (a count that does not match is a syntax error).
rule_channels(t, p) ==
    Then(Lit(t, p, "CHANNELS"), LAMBDA k :
    Then(rule_integer(t, k.pos), LAMBDA n :
    Then(rule_channel_star(t, n.pos), LAMBDA c :
    IF counts(n.pairs, c.pairs)
    THEN Matched(<<Pair("channels", <<>>, n.pairs \o c.pairs)>>, c.pos)
    ELSE NoMatch)))

\* end_site: End Site { offset }.
rule_end_site(t, p) ==
    Then(Lit(t, p, "End"), LAMBDA a :
    Then(Lit(t, a.pos, "Site"), LAMBDA b :
    Then(Lit(t, b.pos, "{"), LAMBDA c :
    Then(rule_offset(t, c.pos), LAMBDA o :
    Then(Lit(t, o.pos, "}"), LAMBDA d :
    Matched(<<Pair("end_site", <<>>, o.pairs)>>, d.pos))))))

RECURSIVE rule_joint_body(_, _)
RECURSIVE rule_joint(_, _)
RECURSIVE rule_joint_plus(_, _)

\* joint_body: identifier { offset channels (joint+ | end_site) }.
rule_joint_body(t, p) ==
    Then(rule_identifier(t, p), LAMBDA i :
    Then(Lit(t, i.pos, "{"), LAMBDA a :
    Then(rule_offset(t, a.pos), LAMBDA o :
    Then(rule_channels(t, o.pos), LAMBDA c :
    Then(OrElse(rule_joint_plus(t, c.pos), rule_end_site(t, c.pos)), LAMBDA k :
    Then(Lit(t, k.pos, "}"), LAMBDA b :
    Matched(<<Pair("joint_body", <<>>, i.pairs \o o.pairs \o c.pairs \o k.pairs)>>,
            b.pos)))))))

\* joint: JOINT joint_body.
rule_joint(t, p) ==
    Then(Lit(t, p, "JOINT"), LAMBDA k :
    Then(rule_joint_body(t, k.pos), LAMBDA b :
    Matched(<<Pair("joint", <<>>, b.pairs)>>, b.pos)))

\* joint+.
rule_joint_plus(t, p) ==
    Then(rule_joint(t, p), LAMBDA j :
    Then(OrElse(rule_joint_plus(t, j.pos), Matched(<<>>, j.pos)), LAMBDA more :
    Matched(j.pairs \o more.pairs, more.pos)))

\* root_joint: ROOT joint_body.
rule_root_joint(t, p) ==
    Then(Lit(t, p, "ROOT"), LAMBDA k :
    Then(rule_joint_body(t, k.pos), LAMBDA b :
    Matched(<<Pair("root_joint", <<>>, b.pairs)>>, b.pos)))

\* hierarchy: HIERARCHY root_joint.
rule_hierarchy(t, p) ==
    Then(Lit(t, p, "HIERARCHY"), LAMBDA k :
    Then(rule_root_joint(t, k.pos), LAMBDA r :
    Matched(<<Pair("hierarchy", <<>>, r.pairs)>>, r.pos)))

\* float*.
RECURSIVE rule_float_star(_, _)
rule_float_star(t, p) ==
    OrElse(Then(rule_float(t, p), LAMBDA f :
           Then(rule_float_star(t, f.pos), LAMBDA more :
           Matched(f.pairs \o more.pairs, more.pos))),
           Matched(<<>>, p))

\* frames: Frames: integer Frame Time: float float*.
rule_frames(t, p) ==
    Then(Lit(t, p, "Frames:"), LAMBDA a :
    Then(rule_integer(t, a.pos), LAMBDA n :
    Then(Lit(t, n.pos, "Frame"), LAMBDA b :
    Then(Lit(t, b.pos, "Time:"), LAMBDA c :
    Then(rule_float(t, c.pos), LAMBDA f :
    Then(rule_float_star(t, f.pos), LAMBDA v :
    Matched(<<Pair("frames", <<>>, n.pairs \o f.pairs \o v.pairs)>>, v.pos)))))))

\* motion: MOTION frames.
rule_motion(t, p) ==
    Then(Lit(t, p, "MOTION"), LAMBDA k :
    Then(rule_frames(t, k.pos), LAMBDA f :
    Matched(<<Pair("motion", <<>>, f.pairs)>>, f.pos)))

\* bvh: hierarchy motion, up to the end of the input.
rule_bvh(t, p) ==
    Then(rule_hierarchy(t, p), LAMBDA h :
    Then(rule_motion(t, h.pos), LAMBDA m :
    IF SkipWs(t, m.pos) > Len(t)
    THEN Matched(<<Pair("bvh", <<>>, h.pairs \o m.pairs)>>, Len(t) + 1)
    ELSE NoMatch))

\* BvhParser::parse(Rule::bvh, input): the pairs, or the grammar's error.
as_result(m) == IF m.ok THEN [tag |-> "Ok", pairs |-> m.pairs]
                ELSE [tag |-> "Err", pairs |-> <<>>]

BvhParser_parse(input) == as_result(rule_bvh(input, 1))

\* ---------------------------------------------------------------- parser
\* Pairs is an iterator: find takes the pairs up to and including the first of
\* the rule and leaves the rest; with none of the rule it takes them all and
\* returns None.
FindIdx(pairs, rule) ==
    IF \E i \in 1..Len(pairs) : pairs[i].rule = rule
    THEN CHOOSE i \in 1..Len(pairs) :
            /\ pairs[i].rule = rule
            /\ \A j \in 1..(i - 1) : pairs[j].rule # rule
    ELSE 0

found(pairs, i) ==
    IF i = 0 THEN [tag |-> "None", pair |-> Pair("", <<>>, <<>>), rest |-> <<>>]
    ELSE [tag |-> "Some", pair |-> pairs[i], rest |-> SubSeq(pairs, i + 1, Len(pairs))]

find(pairs, rule) == found(pairs, FindIdx(pairs, rule))

filter(pairs, rule) == SelectSeq(pairs, LAMBDA pair : pair.rule = rule)

\* The value of a call, with what the iterator passed in still holds; or the
\* panic of an unwrap() or of unreachable!() in it.
Done(val, rest) == [tag |-> "Ok", val |-> val, rest |-> rest]

Panicked == [tag |-> "Panic", val |-> <<>>, rest |-> <<>>]

\* x.unwrap(), and what is done with the value: a panic on None and on Err.
unwrap(x, F(_)) == IF x.tag \in {"Some", "Ok"} THEN F(x) ELSE Panicked

\* A call, and what is done with its value: its panic is the caller's.
returned(x, F(_)) == IF x.tag = "Panic" THEN Panicked ELSE F(x)

\* map(...).collect(): the values, or the panic of one of the calls.
collect(results) ==
    IF \A i \in 1..Len(results) : results[i].tag = "Ok"
    THEN Done([i \in 1..Len(results) |-> results[i].val], <<>>)
    ELSE Panicked

parse_f64(offset_pairs) ==
    unwrap(find(offset_pairs, "float"), LAMBDA float :
    unwrap(parse_f64_str(float.pair.str), LAMBDA value :
    Done(value.val, float.rest)))

parse_offset(offset_pairs) ==
    returned(parse_f64(offset_pairs), LAMBDA x :
    returned(parse_f64(x.rest), LAMBDA y :
    returned(parse_f64(y.rest), LAMBDA z :
    Done(Offset(x.val, y.val, z.val), z.rest))))

\* The match of parse_joint's channel map; anything else is unreachable!().
channel_of(str) ==
    CASE str = <<"Xposition">> -> Done("XPosition", <<>>)
      [] str = <<"Yposition">> -> Done("YPosition", <<>>)
      [] str = <<"Zposition">> -> Done("ZPosition", <<>>)
      [] str = <<"Xrotation">> -> Done("XRotation", <<>>)
      [] str = <<"Yrotation">> -> Done("YRotation", <<>>)
      [] str = <<"Zrotation">> -> Done("ZRotation", <<>>)
      [] OTHER -> Panicked

RECURSIVE parse_joint(_)

\* The joint of a joint pair: parse_joint of its joint_body.
nested_joint(pair) ==
    unwrap(find(pair.inner, "joint_body"), LAMBDA body : parse_joint(body.pair.inner))

\* The joints collected last first.
joints_of_reversed(nested) ==
    collect([i \in 1..Len(nested) |-> nested_joint(nested[Len(nested) + 1 - i])])

\* The joints of parse_joint: every joint pair the iterator still holds, built
\* in the iterator's order.
joints_of(nested) == collect([i \in 1..Len(nested) |-> nested_joint(nested[i])])

nested_joints(joint_body_pairs) == joints_of(filter(joint_body_pairs, "joint"))

\* Children that are the joints whether there are any or not.
joint_children_no_end(joints, joint_body_pairs) == Done(Joints(joints), <<>>)

\* The children of parse_joint: the joints when there are any, or else the
\* end_site the iterator still holds.
joint_children(joints, joint_body_pairs) ==
    IF Len(joints) > 0 THEN Done(Joints(joints), <<>>)
    ELSE unwrap(find(joint_body_pairs, "end_site"), LAMBDA end_site_pairs :
         unwrap(find(end_site_pairs.pair.inner, "offset"), LAMBDA offset_pairs :
         returned(parse_offset(offset_pairs.pair.inner), LAMBDA offset :
         Done(EndSite(offset.val), <<>>))))

\* The channels of parse_joint: the channel pairs, each mapped to its Channel.
channels_of(listed) == collect([i \in 1..Len(listed) |-> channel_of(listed[i].str)])

joint_channels(channel_pairs) == channels_of(filter(channel_pairs, "channel"))

parse_joint(joint_body_pairs) ==
    unwrap(find(joint_body_pairs, "identifier"), LAMBDA name :
    unwrap(find(name.rest, "offset"), LAMBDA offset_pairs :
    returned(parse_offset(offset_pairs.pair.inner), LAMBDA offset :
    unwrap(find(offset_pairs.rest, "channels"), LAMBDA channel_pairs :
    returned(nested_joints(channel_pairs.rest), LAMBDA joints :
    returned(joint_children(joints.val, channel_pairs.rest), LAMBDA children :
    returned(joint_channels(channel_pairs.pair.inner), LAMBDA channels :
    Done(Joint(name.pair.str[1], offset.val, channels.val, children.val), <<>>))))))))

\* frame_data of parse: the floats the iterator still holds, each converted.
float_value(pair) == unwrap(parse_f64_str(pair.str), LAMBDA value : Done(value.val, <<>>))

floats_of(floats) == collect([i \in 1..Len(floats) |-> float_value(floats[i])])

frame_values(frames_pairs) == floats_of(filter(frames_pairs, "float"))

\* A Motion whose frame_data starts again after the integer, frame_time included.
parse_motion_keeps_time(frames_pairs) ==
    unwrap(find(frames_pairs, "integer"), LAMBDA integer :
    unwrap(parse_u32(integer.pair.str), LAMBDA num_frames :
    returned(parse_f64(integer.rest), LAMBDA frame_time :
    returned(frame_values(integer.rest), LAMBDA frame_data :
    Done(Motion(num_frames.val, frame_time.val, frame_data.val), <<>>)))))

\* The Motion of parse, from the pairs of the frames block: the first integer,
\* the first float after it, and every float after that one.
parse_motion(frames_pairs) ==
    unwrap(find(frames_pairs, "integer"), LAMBDA integer :
    unwrap(parse_u32(integer.pair.str), LAMBDA num_frames :
    returned(parse_f64(integer.rest), LAMBDA frame_time :
    returned(frame_values(frame_time.rest), LAMBDA frame_data :
    Done(Motion(num_frames.val, frame_time.val, frame_data.val), <<>>)))))

\* Nothing returned yet.
None == [tag |-> "None", val |-> <<>>]

\* The value parse returns: Ok(Bvh), Err(String), or a panic.
Ok(value) == [tag |-> "Ok", val |-> value]

Err == [tag |-> "Err", val |-> <<>>]

Crash == [tag |-> "Panic", val |-> <<>>]

outcome(x) == IF x.tag = "Ok" THEN Ok(x.val) ELSE Crash

\* parse, once the grammar has matched: the Bvh built from the pairs.
build(pairs) ==
    outcome(
    unwrap(find(pairs, "bvh"), LAMBDA bvh_pairs :
    unwrap(find(bvh_pairs.pair.inner, "hierarchy"), LAMBDA hierarchy_pairs :
    unwrap(find(hierarchy_pairs.pair.inner, "root_joint"), LAMBDA root_pairs :
    unwrap(find(root_pairs.pair.inner, "joint_body"), LAMBDA root_joint_body_pairs :
    returned(parse_joint(root_joint_body_pairs.pair.inner), LAMBDA root :
    unwrap(find(hierarchy_pairs.rest, "motion"), LAMBDA motion_pairs :
    unwrap(find(motion_pairs.pair.inner, "frames"), LAMBDA frames_pairs :
    returned(parse_motion(frames_pairs.pair.inner), LAMBDA motion :
    Done(Bvh(root.val, motion.val), <<>>))))))))))

\* The grammar's result unwrapped instead: its error is a panic.
propagate_unwrapped(tokens) == IF tokens.tag = "Err" THEN Crash ELSE build(tokens.pairs)

\* BvhParser::parse(...).map_err(...)?: the grammar's error is returned.
propagate(tokens) == IF tokens.tag = "Err" THEN Err ELSE build(tokens.pairs)

parse(input) == propagate(BvhParser_parse(input))

\* -------------------------------------------------- values to serialize
\* name, offset and channels of a joint, as one of a few heads.
Heads ==
    { [name |-> "Hips", offset |-> Offset(0, 0, 0),
       channels |-> <<"ZRotation", "XPosition">>],
      [name |-> "Leg", offset |-> Offset(0 - (3 * Scale) \div 2, Scale \div 20, 10 * Scale),
       channels |-> <<"YPosition">>] }

\* Heads of a lone joint: no channel at all, and the three other channels.
LoneHeads ==
    { [name |-> "Toe", offset |-> Offset(Scale \div 4, 0 - Scale, 7),
       channels |-> <<>>],
      [name |-> "Arm", offset |-> Offset(Scale, 0, 0 - 12 * Scale),
       channels |-> <<"YRotation", "XRotation", "ZPosition">>] }

EndOffset == Offset(0, 0 - Scale \div 2, Scale)

RECURSIVE Trees(_)
RECURSIVE Forests(_)

\* The non-empty sequences of joints with n joints in all.
Forests(n) ==
    IF n = 0 THEN {<<>>}
    ELSE UNION { { <<t>> \o f : t \in Trees(k), f \in Forests(n - k) } : k \in 1..n }

\* The joints with n joints in all, every leaf with an end site.
Trees(n) ==
    IF n = 1
    THEN { Joint(h.name, h.offset, h.channels, EndSite(EndOffset)) : h \in Heads }
    ELSE { Joint(h.name, h.offset, h.channels, Joints(f)) :
              h \in Heads, f \in Forests(n - 1) }

DataPool == <<0, 0 - (3 * Scale) \div 2, Scale \div 20, 10 * Scale, Scale \div 4, 1, 0 - 7>>

DataOf(len) == [i \in 1..len |-> DataPool[((i - 1) % Len(DataPool)) + 1]]

FrameTime == Scale \div 25

\* num_frames: a few small counts, and u32::MAX.
FrameCounts == {U32(0), U32(1), U32(2), [hi |-> Half - 1, lo |-> Half - 1]}

Motions ==
    { Motion(n, FrameTime, DataOf(len)) : n \in FrameCounts, len \in 0..MaxData }

\* Values that break the data model: no children at all, an empty name.
BrokenRoots ==
    { Joint("Hips", Offset(0, 0, 0), <<"XPosition">>, Joints(<<>>)),
      Joint("", Offset(0, 0, 0), <<"XPosition">>, EndSite(EndOffset)) }

Roots ==
    UNION { Trees(n) : n \in 1..MaxJoints }
    \cup { Joint(h.name, h.offset, h.channels, EndSite(EndOffset)) : h \in LoneHeads }
    \cup BrokenRoots

Bvhs == { Bvh(root, motion) : root \in Roots, motion \in Motions }

\* The errors a sink may return from a write.
SinkErrors == {"BrokenPipe", "StorageFull"}

\* ---------------------------------------------------- documents to parse
\* A number as a document writes it, with the value it denotes.
Num(tok, val) == [tok |-> tok, val |-> val]

Zero == Num(<<"0">>, 0)

DocOffsets ==
    << <<Zero, Num(<<"0", ".", "0">>, 0), Num(<<"-", "0">>, 0)>>,
       <<Num(<<"-", "1", ".", "5">>, 0 - (3 * Scale) \div 2),
         Num(<<"0", ".", "0", "5">>, Scale \div 20),
         Num(<<"1", "0", ".", "0">>, 10 * Scale)>>,
       <<Num(<<"2", ".", "5", "0">>, (5 * Scale) \div 2),
         Num(<<"0", "0", "7">>, 7 * Scale),
         Num(<<"-", "0", ".", "2", "5">>, 0 - Scale \div 4)>> >>

\* name, offset, declared channel count and channel literals of a joint block;
\* the last two declare a count that is not the number of literals.
DocHeads ==
    { [name |-> "Hips", offset |-> DocOffsets[1], count |-> <<"3">>,
       chans |-> <<"Xposition", "Yposition", "Zposition">>],
      [name |-> "Leg", offset |-> DocOffsets[2], count |-> <<"0", "3">>,
       chans |-> <<"Zrotation", "Xrotation", "Yrotation">>],
      [name |-> "Toe", offset |-> DocOffsets[3], count |-> <<"2">>,
       chans |-> <<"Yrotation">>],
      [name |-> "Arm", offset |-> DocOffsets[1], count |-> <<"0">>,
       chans |-> <<"Xposition">>] }

DocEnd == <<Zero, Zero, Num(<<"1">>, Scale)>>

\* A joint block: its head, the joint blocks nested in it, its end sites.
DocJoint(h, kids, ends) ==
    [name |-> h.name, offset |-> h.offset, count |-> h.count, chans |-> h.chans,
     kids |-> kids, ends |-> ends]

RECURSIVE DocTrees(_)
RECURSIVE DocForests(_)

DocForests(n) ==
    IF n = 0 THEN {<<>>}
    ELSE UNION { { <<t>> \o f : t \in DocTrees(k), f \in DocForests(n - k) } : k \in 1..n }

\* The joint blocks with n joints in all, every leaf with one end site.
DocTrees(n) ==
    IF n = 1 THEN { DocJoint(h, <<>>, <<DocEnd>>) : h \in DocHeads }
    ELSE { DocJoint(h, f, <<>>) : h \in DocHeads, f \in DocForests(n - 1) }

HipsHead == CHOOSE h \in DocHeads : h.name = "Hips"

LegHead == CHOOSE h \in DocHeads : h.name = "Leg"

\* Joint blocks the data model rules out: nested joints and an end site, or
\* neither.
OddTrees ==
    { DocJoint(HipsHead, <<DocJoint(LegHead, <<>>, <<DocEnd>>)>>, <<DocEnd>>),
      DocJoint(HipsHead, <<>>, <<>>),
      DocJoint(HipsHead, <<DocJoint(LegHead, <<>>, <<>>)>>, <<>>) }

\* The Frames: count of a document, with its value when a u32 holds it: up to
\* and past u32::MAX.
FrameNum(tok, val, fits) == [tok |-> tok, val |-> val, fits |-> fits]

DocFrames ==
    { FrameNum(<<"0">>, U32(0), TRUE), FrameNum(<<"1">>, U32(1), TRUE),
      FrameNum(<<"2">>, U32(2), TRUE), FrameNum(<<"0", "0", "3">>, U32(3), TRUE),
      FrameNum(<<"6", "5", "5", "3", "6">>, [hi |-> 1, lo |-> 0], TRUE),
      FrameNum(<<"4", "2", "9", "4", "9", "6", "7", "2", "9", "5">>,
               [hi |-> Half - 1, lo |-> Half - 1], TRUE),
      FrameNum(<<"4", "2", "9", "4", "9", "6", "7", "2", "9", "6">>, U32(0), FALSE),
      FrameNum(<<"9", "9", "9", "9", "9", "9", "9", "9", "9", "9">>, U32(0), FALSE) }

OneFrame == FrameNum(<<"1">>, U32(1), TRUE)

DocFrameTime == Num(<<"0", ".", "0", "4">>, Scale \div 25)

DocPool ==
    <<Zero, Num(<<"-", "1", ".", "5">>, 0 - (3 * Scale) \div 2),
      Num(<<"1", ".", "0">>, Scale), Num(<<"0", ".", "5">>, Scale \div 2),
      Num(<<"1", "2">>, 12 * Scale), Num(<<"0", ".", "0", "5">>, Scale \div 20)>>

DocData(len) == [i \in 1..len |-> DocPool[((i - 1) % Len(DocPool)) + 1]]

\* The MOTION section of a document.
DocMotion(frames, data) == [frames |-> frames, time |-> DocFrameTime, data |-> data]

\* A document: its root block and its MOTION sections (one, or none at all).
Doc(root, motion) == [root |-> root, motion |-> motion]

Docs ==
    { Doc(t, <<DocMotion(OneFrame, DocData(3))>>) :
         t \in UNION { DocTrees(n) : n \in 1..MaxDocJoints } \cup OddTrees }
    \cup { Doc(t, <<DocMotion(f, DocData(len))>>) :
              t \in DocTrees(1), f \in DocFrames, len \in 0..MaxDocData }
    \cup { Doc(t, <<>>) : t \in DocTrees(1) \cup DocTrees(2) }

NumsText(nums) == Concat([i \in 1..Len(nums) |-> <<" ">> \o nums[i].tok])

OffsetText(offset) == <<"OFFSET">> \o NumsText(offset) \o <<"\n">>

RECURSIVE JointText(_)
JointText(j) ==
    <<j.name, "\n", "{", "\n", " ">> \o OffsetText(j.offset)
    \o <<" ", "CHANNELS", " ">> \o j.count
    \o Concat([i \in 1..Len(j.chans) |-> <<" ", j.chans[i]>>]) \o <<"\n">>
    \o Concat([i \in 1..Len(j.kids) |-> <<" ", "JOINT", " ">> \o JointText(j.kids[i])])
    \o Concat([i \in 1..Len(j.ends) |->
                  <<" ", "End", " ", "Site", "\n", "{", "\n">>
                  \o OffsetText(j.ends[i]) \o <<"}", "\n">>])
    \o <<"}", "\n">>

MotionText(m) ==
    <<"MOTION", "\n", "Frames:", " ">> \o m.frames.tok
    \o <<"\n", "Frame", " ", "Time:", " ">> \o m.time.tok \o <<"\n">>
    \o (IF m.data = <<>> THEN <<>> ELSE Tail(NumsText(m.data)) \o <<"\n">>)

\* The text of a document.
DocText(d) ==
    <<"HIERARCHY", "\n", "ROOT", " ">> \o JointText(d.root)
    \o Concat([i \in 1..Len(d.motion) |-> MotionText(d.motion[i])])

NoDoc == Doc(DocJoint(HipsHead, <<>>, <<>>), <<>>)

\* The pairs of a joint block's body, with no regard for what the grammar
\* admits: its identifier, offset, channels, joints and end sites, in order.
OffsetPair(offset) ==
    Pair("offset", <<>>, [i \in 1..Len(offset) |-> Pair("float", offset[i].tok, <<>>)])

RECURSIVE BodyPairs(_)
BodyPairs(j) ==
    <<Pair("identifier", <<j.name>>, <<>>),
      OffsetPair(j.offset),
      Pair("channels", <<>>,
           <<Pair("integer", j.count, <<>>)>>
           \o [i \in 1..Len(j.chans) |-> Pair("channel", <<j.chans[i]>>, <<>>)])>>
    \o [i \in 1..Len(j.kids) |->
            Pair("joint", <<>>, <<Pair("joint_body", <<>>, BodyPairs(j.kids[i]))>>)]
    \o [i \in 1..Len(j.ends) |-> Pair("end_site", <<>>, <<OffsetPair(j.ends[i])>>)]

\* --------------------------------------------------------------- state
VARIABLES
    bvh,        \* the value handed to serialize
    pc,         \* serialize: the place, in serialize(bvh), of the next write
    sink,       \* the text the sink has received
    sinkError,  \* the error the sink returned from a write, "" when none
    result,     \* what serialize returned: Running, Ok, Err (with err), Panic
    reparsed,   \* parse of the sink's text, after serialize returned Ok
    doc,        \* the document handed to parse
    parsed,     \* what parse returned for it
    built       \* what parse_joint returned for the pairs of its root block

vars == <<bvh, pc, sink, sinkError, result, reparsed, doc, parsed, built>>

Running == [tag |-> "Running", err |-> ""]

NoBvh == Bvh(Joint("Hips", Offset(0, 0, 0), <<>>, EndSite(Offset(0, 0, 0))),
             Motion(U32(0), 0, <<>>))


\* ---------------------------------------------------------- serialize
InitSerialize ==
    /\ bvh \in Bvhs
    /\ pc = 1
    /\ sink = <<>>
    /\ sinkError = ""
    /\ result = Running
    /\ reparsed = None
    /\ doc = NoDoc
    /\ parsed = None
    /\ built = None

AtWrite ==
    /\ result.tag = "Running"
    /\ pc <= Len(serialize(bvh))
    /\ serialize(bvh)[pc].op = "write"

\* A failed write whose error is dropped: serialize goes on to the next write.
write_failed_ignored(e) ==
    /\ pc' = pc + 1
    /\ UNCHANGED <<result, sink>>

\* What serialize does when a write fails: `?` returns the error at once.
write_failed(e) ==
    /\ result' = [tag |-> "Err", err |-> e]
    /\ UNCHANGED <<pc, sink>>

\* The next write of serialize, which the sink takes.
WriteOk ==
    /\ AtWrite
    /\ sink' = sink \o serialize(bvh)[pc].text
    /\ pc' = pc + 1
    /\ UNCHANGED <<bvh, sinkError, result, reparsed, doc, parsed, built>>

\* The next write of serialize, from which the sink returns an error.
WriteErr ==
    /\ AtWrite
    /\ \E e \in SinkErrors :
          /\ sinkError' = e
          /\ write_failed(e)
    /\ UNCHANGED <<bvh, reparsed, doc, parsed, built>>

\* serialize panics (the remainder by zero of serialize_motion).
Abort ==
    /\ result.tag = "Running"
    /\ pc <= Len(serialize(bvh))
    /\ serialize(bvh)[pc].op = "panic"
    /\ result' = [tag |-> "Panic", err |-> ""]
    /\ UNCHANGED <<bvh, pc, sink, sinkError, reparsed, doc, parsed, built>>

\* serialize has made its last write and returns Ok(()).
Return ==
    /\ result.tag = "Running"
    /\ pc > Len(serialize(bvh))
    /\ result' = [tag |-> "Ok", err |-> ""]
    /\ UNCHANGED <<bvh, pc, sink, sinkError, reparsed, doc, parsed, built>>

\* parse of the text serialize produced.
ParseBack ==
    /\ result.tag = "Ok"
    /\ reparsed.tag = "None"
    /\ reparsed' = parse(sink)
    /\ UNCHANGED <<bvh, pc, sink, sinkError, result, doc, parsed, built>>

Next == WriteOk \/ WriteErr \/ Abort \/ Return \/ ParseBack

Spec == InitSerialize /\ [][Next]_vars

\* -------------------------------------------------------------- parse
InitParse ==
    /\ doc \in Docs
    /\ parsed = None
    /\ built = None
    /\ bvh = NoBvh
    /\ pc = 1
    /\ sink = <<>>
    /\ sinkError = ""
    /\ result = Running
    /\ reparsed = None

\* parse of the document's text.
Parse ==
    /\ parsed.tag = "None"
    /\ parsed' = parse(DocText(doc))
    /\ UNCHANGED <<bvh, pc, sink, sinkError, result, reparsed, doc, built>>

\* parse_joint of the pairs of the document's root block.
Build ==
    /\ built.tag = "None"
    /\ built' = outcome(parse_joint(BodyPairs(doc.root)))
    /\ UNCHANGED <<bvh, pc, sink, sinkError, result, reparsed, doc, parsed>>

NextParse == Parse \/ Build

SpecParse == InitParse /\ [][NextParse]_vars

\* ------------------------------------------------------------ properties
Flatten(events) == Concat([i \in 1..Len(events) |-> events[i].text])

NonWs(text) == SelectSeq(text, LAMBDA a : ~IsWs(a))

IsPrefix(s, t) == Len(s) <= Len(t) /\ SubSeq(t, 1, Len(s)) = s

Has(text, word) == \E i \in 1..Len(text) : text[i] = word

\* The joints of a tree, depth first, a joint before its children.
RECURSIVE Preorder(_)
Preorder(joint) ==
    <<joint>>
    \o (IF joint.children.tag = "Joints"
        THEN Concat([i \in 1..Len(joint.children.joints) |->
                        Preorder(joint.children.joints[i])])
        ELSE <<>>)

\* The sum of the joints' own channel counts.
OwnChannels(joints) == SumSeq([i \in 1..Len(joints) |-> Len(joints[i].channels)])

\* The data-model invariants: every joint is named and has joints or an end
\* site; frame_data holds num_frames rows of total_channels values.
WellFormed(b) ==
    LET all   == Preorder(b.hierarchy.root)
        width == OwnChannels(all)
        n     == b.motion.num_frames
    IN  /\ \A i \in 1..Len(all) :
              /\ all[i].name # ""
              /\ all[i].children.tag = "Joints" => all[i].children.joints # <<>>
        /\ IF width = 0 THEN b.motion.frame_data = <<>>
           ELSE n.hi = 0 /\ Len(b.motion.frame_data) = n.lo * width

C2_OnlySinkFailures ==
    \/ result.tag \in {"Running", "Ok"}
    \/ result.tag = "Err" /\ result.err = sinkError /\ sinkError \in SinkErrors

\* C5: total_channels of a joint is the sum of the own channel counts of the
\* joints of its tree, depth first; a joint with an end site has its own count.
C5_ChannelCountIdentity ==
    LET all == Preorder(bvh.hierarchy.root)
    IN  \A i \in 1..Len(all) :
           /\ total_channels(all[i]) = OwnChannels(Preorder(all[i]))
           /\ all[i].children.tag = "EndSite"
                 => total_channels(all[i]) = Len(all[i].channels)

C5_Witness ==
    LET root == bvh.hierarchy.root
    IN  /\ root.children.tag = "Joints"
        /\ \E i \in 1..Len(root.children.joints) :
              /\ root.children.joints[i].children.tag = "Joints"
              /\ root.children.joints[i].children.joints # <<>>
              /\ total_channels(root.children.joints[i]) > Len(root.children.joints[i].channels)
        /\ total_channels(root) = OwnChannels(Preorder(root))
        /\ result.tag = "Ok"

\* The literal serialize writes for a channel.
LiteralOf ==
    [XPosition |-> "Xposition", YPosition |-> "Yposition", ZPosition |-> "Zposition",
     XRotation |-> "Xrotation", YRotation |-> "Yrotation", ZRotation |-> "Zrotation"]

OffsetLine(offset) ==
    <<"OFFSET", " ">> \o fmt_f64(offset.x) \o <<" ">> \o fmt_f64(offset.y)
    \o <<" ">> \o fmt_f64(offset.z) \o <<"\n">>

\* The block of a joint in the canonical layout, after ROOT or JOINT.
RECURSIVE Block(_, _)
Block(keyword, joint) ==
    <<keyword, " ">> \o fmt_str(joint.name) \o <<"\n", "{", "\n">>
    \o OffsetLine(joint.offset)
    \o <<"CHANNELS", " ">> \o fmt_nat(Len(joint.channels))
    \o Concat([i \in 1..Len(joint.channels) |-> <<" ", LiteralOf[joint.channels[i]]>>])
    \o <<"\n">>
    \o (IF joint.children.tag = "Joints"
        THEN Concat([i \in 1..Len(joint.children.joints) |->
                        Block("JOINT", joint.children.joints[i])])
        ELSE <<"End", " ", "Site", "\n", "{", "\n">>
             \o OffsetLine(joint.children.offset) \o <<"}", "\n">>)
    \o <<"}", "\n">>

\* The canonical layout up to and including the Frame Time: line.
Preamble(b) ==
    <<"HIERARCHY", "\n">> \o Block("ROOT", b.hierarchy.root)
    \o <<"MOTION", "\n", "Frames:", " ">> \o fmt_u32(b.motion.num_frames)
    \o <<"\n", "Frame", " ", "Time:", " ">> \o fmt_f64(b.motion.frame_time) \o <<"\n">>

\* A row: its values, one space between two of them, and a newline.
Row(values) ==
    fmt_f64(values[1])
    \o Concat([i \in 2..Len(values) |-> <<" ">> \o fmt_f64(values[i])])
    \o <<"\n">>

\* frame_data cut into consecutive rows of `width` values, the last one shorter
\* when the values run out.
RECURSIVE Rows(_, _)
Rows(frame_data, width) ==
    IF frame_data = <<>> \/ width = 0 THEN <<>>
    ELSE IF Len(frame_data) <= width THEN Row(frame_data)
    ELSE Row(SubSeq(frame_data, 1, width))
         \o Rows(SubSeq(frame_data, width + 1, Len(frame_data)), width)

\* C6: once serialize has returned Ok, the text after the Frame Time: line is
\* frame_data in rows of total_channels values, one space between the values
\* of a row, every row ended by a newline, the last and shorter one included.
C6_RowLayout ==
    result.tag = "Ok"
        => sink = Preamble(bvh) \o Rows(bvh.motion.frame_data,
                                    OwnChannels(Preorder(bvh.hierarchy.root)))

\* C10: serialize writes in the order of the canonical layout; the error of
\* the sink's k-th write is what it returns, at once: the sink then holds the
\* first k - 1 writes and nothing else, and no write follows a failed one.
C10_FailFast ==
    /\ IsPrefix(NonWs(sink),
                NonWs(Preamble(bvh))
                \o Concat([i \in 1..Len(bvh.motion.frame_data) |->
                              fmt_f64(bvh.motion.frame_data[i])]))
    /\ sinkError # "" => result.tag = "Err"
    /\ result.tag = "Err"
          => /\ result.err = sinkError
             /\ sinkError \in SinkErrors
             /\ sink = Flatten(SubSeq(serialize(bvh), 1, pc - 1))

C10_Witness ==
    /\ result.tag = "Err"
    /\ result.err = sinkError
    /\ bvh.hierarchy.root.children.tag = "Joints"
    /\ Has(sink, "JOINT")
    /\ Has(sink, "Frames:")
    /\ sink = Flatten(SubSeq(serialize(bvh), 1, pc - 1))
    /\ pc <= Len(serialize(bvh))

\* A joint block declares a channel count that is not the number of channel
\* literals after it, in this block or in one nested in it.
RECURSIVE CountMismatch(_)
CountMismatch(j) ==
    \/ nat_of(j.count) # Len(j.chans)
    \/ \E i \in 1..Len(j.kids) : CountMismatch(j.kids[i])

\* Every joint block has nested joint blocks or one end site, not both.
RECURSIVE WellNested(_)
WellNested(j) ==
    /\ (j.kids = <<>>) = (Len(j.ends) = 1)
    /\ j.kids # <<>> => j.ends = <<>>
    /\ \A i \in 1..Len(j.kids) : WellNested(j.kids[i])

\* C3: parse returns Ok or Err for every input; it never panics.
C3_ParseNeverPanics == parsed.tag # "Panic"

ChannelOf ==
    [Xposition |-> "XPosition", Yposition |-> "YPosition", Zposition |-> "ZPosition",
     Xrotation |-> "XRotation", Yrotation |-> "YRotation", Zrotation |-> "ZRotation"]

\* Names, channels and nesting of the joint blocks of a document.
RECURSIVE DocShape(_)
DocShape(j) ==
    [name |-> j.name,
     channels |-> [i \in 1..Len(j.chans) |-> ChannelOf[j.chans[i]]],
     joints |-> [i \in 1..Len(j.kids) |-> DocShape(j.kids[i])]]

\* Names, channels and nesting of the joints of a tree.
RECURSIVE Shape(_)
Shape(joint) ==
    [name |-> joint.name,
     channels |-> joint.channels,
     joints |-> [i \in 1..Len(joint.children.joints) |-> Shape(joint.children.joints[i])]]

\* C7: in what parse returns, the joints of a joint are the joint blocks nested
\* in its block, once each and in document order, at every depth, and its
\* channels are its channel literals in document order.
C7_DocumentOrder ==
    parsed.tag = "Ok" => Shape(parsed.val.hierarchy.root) = DocShape(doc.root)

C7_Witness ==
    /\ parsed.tag = "Ok"
    /\ Len(doc.root.kids) >= 2
    /\ doc.root.kids[1].name # doc.root.kids[2].name
    /\ \E i \in 1..Len(doc.root.kids) : doc.root.kids[i].kids # <<>>
    /\ Shape(parsed.val.hierarchy.root) = DocShape(doc.root)

OffsetOf(nums) == Offset(nums[1].val, nums[2].val, nums[3].val)

\* The children of a joint are the Joints of a block with nested blocks and the
\* EndSite of its end site otherwise, at every depth; Joints is never empty.
RECURSIVE ChildrenAgree(_, _)
ChildrenAgree(joint, j) ==
    IF j.kids # <<>>
    THEN /\ joint.children.tag = "Joints"
         /\ Len(joint.children.joints) = Len(j.kids)
         /\ \A i \in 1..Len(j.kids) : ChildrenAgree(joint.children.joints[i], j.kids[i])
    ELSE /\ joint.children.tag = "EndSite"
         /\ j.ends # <<>>
         /\ joint.children.offset = OffsetOf(j.ends[1])

\* C8: every joint parse returns has the Joints of the joint blocks nested in
\* its block when there are any, and the EndSite of its end site otherwise;
\* Joints is never empty; parse_joint takes the nested joints whether the body
\* holds an end site or not.
C8_ChildrenExclusive ==
    /\ parsed.tag = "Ok" => ChildrenAgree(parsed.val.hierarchy.root, doc.root)
    /\ built.tag = "Ok" => ChildrenAgree(built.val, doc.root)

C8_Witness ==
    /\ parsed.tag = "Ok"
    /\ parsed.val.hierarchy.root.children.tag = "Joints"
    /\ \E i \in 1..Len(parsed.val.hierarchy.root.children.joints) :
          parsed.val.hierarchy.root.children.joints[i].children
             = EndSite(OffsetOf(DocEnd))
    /\ \E i \in 1..Len(parsed.val.hierarchy.root.children.joints) :
          parsed.val.hierarchy.root.children.joints[i].children.tag = "Joints"

\* C9: num_frames is the integer of the frames block, frame_time the float
\* after it and frame_data every float after that one, in order; parse checks
\* no length, and returns Ok whatever the number of values.
C9_MotionPositional ==
    parsed.tag # "None"
        => /\ parsed.tag = "Ok"
                 => /\ parsed.val.motion.num_frames = doc.motion[1].frames.val
                    /\ parsed.val.motion.frame_time = doc.motion[1].time.val
                    /\ parsed.val.motion.frame_data
                          = [i \in 1..Len(doc.motion[1].data) |-> doc.motion[1].data[i].val]
           /\ ( /\ doc.motion # <<>>
                /\ doc.motion[1].frames.fits
                /\ WellNested(doc.root)
                /\ ~CountMismatch(doc.root) ) => parsed.tag = "Ok"

C9_Witness ==
    /\ parsed.tag = "Ok"
    /\ parsed.val.motion.num_frames = U32(0)
    /\ Len(parsed.val.motion.frame_data) = 4
    /\ parsed.val.motion.frame_data[2] # parsed.val.motion.frame_data[3]

====
